---------------------------- MODULE Spec2Model ----------------------------
(***************************************************************************)
(* A model of tortus.py: the Tortus annotation widget.                     *)
(*                                                                         *)
(* The state is the Tortus object (df, annotations, subset_df,             *)
(* annotation_index and the configuration flags) together with the part of *)
(* the widget state that decides which click handlers can run: which       *)
(* screen is displayed, whether the label and skip buttons are disabled    *)
(* and whether the confirm / redo buttons are visible.                     *)
(*                                                                         *)
(* Tables are sequences of rows.  Python positions are 0-based: iloc[k] is *)
(* element k+1 of the sequence.  The annotations table carries the default *)
(* 0..n-1 row index that the tool itself builds (and that read_csv builds  *)
(* in load_annotated_data), so the label of a row is its position.         *)
(* annotate() is called once on a constructed object.                      *)
(***************************************************************************)
EXTENDS Integers, Sequences, FiniteSets, TLC

\* Bounds of the model.
MaxRows == 3
MaxRecords == 3
MaxPrior == 2

\* datetime.now() at the session's writes; the prior annotations were written
\* at time 0.
now == 1

\* Python's None.
NULL == "None"

\* The texts and ids the source table and the prior annotations draw from.
Texts == {"a", "b"}
\* The text column of the source table, row by row: one text per record.
SourceTexts == <<"a", "b", "c", "d", "e">>
PriorIds == {10, 11}
PriorLabels == {"negative", "other"}

\* A button description that is not among the labels.
UnknownDescriptions == {"Other"}

\* The default label set of __init__.
labels == <<"Positve", "Negative", "Neutral">>

ButtonDescriptions == {labels[i] : i \in 1..Len(labels)}

\* str.lower() on the button descriptions the widget has.
Lower(s) ==
  CASE s = "Positve" -> "positve"
    [] s = "Negative" -> "negative"
    [] s = "Neutral" -> "neutral"
    [] s = "Skip" -> "skip"
    [] OTHER -> s

VARIABLES
  df,                \* the source table: rows [index, id_column, text]
  prior,             \* the annotations argument of __init__
  num_records,
  id_column,         \* "id" when an id column is configured, NULL otherwise
  edit_annotations,
  random_arg,        \* the random argument of __init__
  random,            \* self.random
  display_confirm,
  subset_df,         \* rows [index, id_column, text]
  annotations,       \* rows [id_column, text, label, annotated_at]
  annotation_index,
  screen,            \* what is displayed: "none", "annotate" (the buttons),
                     \* "Complete" or "Start" (the header alone)
  raised,            \* the exception annotate() raised, or NULL
  disabled,          \* label buttons and skip button disabled
  confirm_visible,   \* confirm and redo buttons visible
  last               \* the last click: its handler and the state it ran in

vars == <<df, prior, num_records, id_column, edit_annotations, random_arg, random,
          display_confirm, subset_df, annotations, annotation_index, screen,
          raised, disabled, confirm_visible, last>>

config == <<df, prior, num_records, id_column, edit_annotations, random_arg, random,
            display_confirm, subset_df>>

-----------------------------------------------------------------------------
\* Helpers on tables.

Min(a, b) == IF a < b THEN a ELSE b

\* DataFrame.iloc[k]
iloc(table, k) == table[k + 1]

\* table[:n] without the cut: every row is kept.
head_slice_keeps_all(table, n) == table

\* table[:n]
head_slice(table, n) == SubSeq(table, 1, Min(n, Len(table)))

\* DataFrame.head(-1): all rows but the last; an empty table stays empty.
head_minus_one(table) ==
  IF Len(table) = 0 THEN table ELSE SubSeq(table, 1, Len(table) - 1)

\* table[column].to_list() as the set isin() tests membership in.
text_list(table) == {table[i].text : i \in 1..Len(table)}

\* DataFrame.sample(n): n distinct rows in any order; no result (ValueError)
\* when n exceeds the number of rows.
sample(table, n) ==
  {s \in [1..n -> 1..Len(table)] :
      \A i, j \in 1..n : i # j => s[i] # s[j]}

\* table.loc[idx] = row on the default index: set the row labelled idx, or
\* enlarge the table by a row labelled idx = len(table).
loc_set(table, idx, row) ==
  IF idx < Len(table) THEN [table EXCEPT ![idx + 1] = row]
  ELSE Append(table, row)

-----------------------------------------------------------------------------
\* Construction.

\* row_selection_to_annotate without the negation of line 105: the annotated
\* rows are kept in both modes.
row_selection_without_negation(df_, annotations_, edit_) ==
  IF Len(annotations_) = 0 THEN df_
  ELSE LET already_annotated == text_list(annotations_)
           isin(r) == r.text \in already_annotated
       IN  SelectSeq(df_, isin)

\* The rows of df that create_subset_df selects from, before num_records is
\* applied: all of df when annotations is empty, otherwise the rows whose
\* text is (edit_annotations) or is not (otherwise) among the annotated texts.
row_selection_to_annotate(df_, annotations_, edit_) ==
  IF Len(annotations_) = 0 THEN df_
  ELSE LET already_annotated == text_list(annotations_)
           isin(r) == r.text \in already_annotated
           keep(r) == IF edit_ THEN isin(r) ELSE ~isin(r)
       IN  SelectSeq(df_, keep)

\* The values create_subset_df can return: the first num_records selected
\* rows, or (random) any sample of num_records of them.
create_subset_df(df_, annotations_, edit_, random_, n) ==
  LET selected == row_selection_to_annotate(df_, annotations_, edit_)
  IN  IF random_
      THEN {[i \in 1..n |-> selected[s[i]]] : s \in sample(selected, n)}
      ELSE {head_slice(selected, n)}

\* create_record_id: the record id of every row of subset_df.
create_record_id ==
  IF id_column = NULL
  THEN [i \in 1..Len(subset_df) |-> subset_df[i].index]
  ELSE [i \in 1..Len(subset_df) |-> subset_df[i].id_column]

\* The source tables: up to MaxRows rows, ids 10, 11, ...
SourceTables ==
  {[i \in 1..n |-> [index |-> i - 1, id_column |-> 9 + i,
                    text |-> SourceTexts[i]]] : n \in 0..MaxRows}

\* The rows of the prior annotations: record 10 was labelled "negative",
\* every other record carries a label of another label set.
PriorRows ==
  {r \in [id_column : PriorIds, text : Texts, label : PriorLabels,
          annotated_at : {0}] :
     r.label = IF r.id_column = 10 THEN "negative" ELSE "other"}

\* The prior annotation tables: up to MaxPrior rows.
PriorTables == UNION {[1..n -> PriorRows] : n \in 0..MaxPrior}

NoClick ==
  [op |-> "none", description |-> NULL, annotation_index |-> 0,
   screen |-> "none", annotations |-> <<>>, after |-> "none",
   before |-> <<>>, writes |-> -1]

\* self.random without the test of edit_annotations at line 83.
self_random_as_given(edit_, random_) == random_

\* self.random = False if self.edit_annotations else random
self_random(edit_, random_) == IF edit_ THEN FALSE ELSE random_

\* __init__
Init ==
  /\ df \in SourceTables
  /\ prior \in PriorTables
  /\ num_records \in 0..MaxRecords
  /\ id_column \in {"id", NULL}
  /\ edit_annotations \in BOOLEAN
  /\ display_confirm \in BOOLEAN
  /\ random_arg \in BOOLEAN
  /\ random = self_random(edit_annotations, random_arg)
  /\ annotations = prior
  /\ subset_df \in create_subset_df(df, annotations, edit_annotations, random,
                                    num_records)
  /\ annotation_index = 0
  /\ screen = "none"
  /\ raised = NULL
  /\ disabled = FALSE
  /\ confirm_visible = FALSE
  /\ last = NoClick

-----------------------------------------------------------------------------
\* The annotation widget.

\* get_annotation_row_from_subset_iloc: the first row of annotations whose
\* id equals the id of subset_df.iloc[subset_iloc], with its row label
\* (name); None (name -1) when there is none.
NoRow == [name |-> -1, label |-> NULL]

get_annotation_row_from_subset_iloc(subset_iloc) ==
  LET cur_row == iloc(subset_df, subset_iloc)
      row_annot == {k \in 1..Len(annotations) :
                      annotations[k].id_column = cur_row.id_column}
  IN  IF row_annot # {}
      THEN LET first == CHOOSE k \in row_annot : \A j \in row_annot : k <= j
           IN  [name |-> first - 1, label |-> annotations[first].label]
      ELSE NoRow

\* buttons_displayed with the buttons left on display by the last screen.
buttons_still_displayed == screen \in {"annotate", "Complete", "Start"}

\* The buttons are on display: annotate() displays them (display(header,
\* rules, text, ui, output)) and the last screen of move_clicked displays the
\* header alone.
buttons_displayed == screen = "annotate"

\* The click that is recorded in last: the operation, the button, the
\* position, screen and table it was made on, for a redo that directly
\* follows a label or skip click, the table that click ran on, and the
\* number of label and skip clicks handled since annotate() as long as no
\* other handler ran (-1 once one did).
WriteOps == {"ChooseLabel", "Skip"}

Click(op, description) ==
  [op |-> op, description |-> description,
   annotation_index |-> annotation_index, screen |-> screen,
   annotations |-> annotations,
   after |-> IF op = "Undo" THEN last.op ELSE "none",
   before |-> IF op = "Undo" /\ last.op \in WriteOps
              THEN last.annotations ELSE <<>>,
   writes |-> IF op = "annotate" THEN 0
              ELSE IF ~buttons_displayed \/ description \in UnknownDescriptions
              THEN last.writes
              ELSE IF op \in WriteOps /\ last.writes >= 0
              THEN last.writes + 1
              ELSE -1]

\* annotate(), called on the constructed object: IndexError from
\* subset_df.iloc[0] on an empty subset_df, KeyError from the lookup of
\* column None when no id column is configured, otherwise the buttons are
\* displayed with confirm and redo hidden.
annotate ==
  /\ screen = "none"
  /\ raised = NULL
  /\ raised' = IF Len(subset_df) = 0 THEN "IndexError"
               ELSE IF id_column = NULL THEN "KeyError"
               ELSE NULL
  /\ screen' = IF raised' = NULL THEN "annotate" ELSE screen
  /\ disabled' = FALSE
  /\ confirm_visible' = FALSE
  /\ last' = Click("annotate", NULL)
  /\ UNCHANGED <<config, annotations, annotation_index>>

\* move_clicked with <= for < in the test of line 333.
move_clicked_off_by_one(delta, dis) ==
  IF delta = -1 /\ annotation_index = 0
  THEN [annotation_index |-> annotation_index, screen |-> screen,
        disabled |-> dis, confirm_visible |-> confirm_visible]
  ELSE IF annotation_index <= Len(subset_df) - 1
  THEN [annotation_index |-> annotation_index + delta, screen |-> "annotate",
        disabled |-> FALSE, confirm_visible |-> FALSE]
  ELSE [annotation_index |-> annotation_index,
        screen |-> IF delta = 1 THEN "Complete" ELSE "Start",
        disabled |-> dis, confirm_visible |-> confirm_visible]

\* move_clicked that displays the record again when prev is clicked at
\* position 0, instead of returning.
move_clicked_redraws_at_start(delta, dis) ==
  IF delta = -1 /\ annotation_index = 0
  THEN [annotation_index |-> annotation_index, screen |-> "annotate",
        disabled |-> FALSE, confirm_visible |-> FALSE]
  ELSE IF annotation_index < Len(subset_df) - 1
  THEN [annotation_index |-> annotation_index + delta, screen |-> "annotate",
        disabled |-> FALSE, confirm_visible |-> FALSE]
  ELSE [annotation_index |-> annotation_index,
        screen |-> IF delta = 1 THEN "Complete" ELSE "Start",
        disabled |-> dis, confirm_visible |-> confirm_visible]

\* move_clicked with the last screen shown one position early.
move_clicked_ends_early(delta, dis) ==
  IF delta = -1 /\ annotation_index = 0
  THEN [annotation_index |-> annotation_index, screen |-> screen,
        disabled |-> dis, confirm_visible |-> confirm_visible]
  ELSE IF annotation_index < Len(subset_df) - 2
  THEN [annotation_index |-> annotation_index + delta, screen |-> "annotate",
        disabled |-> FALSE, confirm_visible |-> FALSE]
  ELSE [annotation_index |-> annotation_index,
        screen |-> IF delta = 1 THEN "Complete" ELSE "Start",
        disabled |-> dis, confirm_visible |-> confirm_visible]

\* move_clicked(delta), called with the buttons' disabled state dis: the
\* position, the screen and the button states it leaves.
move_clicked(delta, dis) ==
  IF delta = -1 /\ annotation_index = 0
  THEN [annotation_index |-> annotation_index, screen |-> screen,
        disabled |-> dis, confirm_visible |-> confirm_visible]
  ELSE IF annotation_index < Len(subset_df) - 1
  THEN [annotation_index |-> annotation_index + delta, screen |-> "annotate",
        disabled |-> FALSE, confirm_visible |-> FALSE]
  ELSE [annotation_index |-> annotation_index,
        screen |-> IF delta = 1 THEN "Complete" ELSE "Start",
        disabled |-> dis, confirm_visible |-> confirm_visible]

\* write_idx that always appends, as before rows were looked up by id.
write_idx_always_append(row_annot) == Len(annotations)

\* write_lbl without lower().
write_lbl_without_lower(row_annot, description, skip) ==
  IF row_annot.name # -1
  THEN IF skip THEN row_annot.label ELSE description
  ELSE IF skip THEN NULL ELSE description

\* write_lbl without the tests of skip: the lowercase description of the
\* button clicked is written, the skip button's too.
write_lbl_ignores_skip(row_annot, description, skip) == Lower(description)

\* write_lbl with a skip that always writes None.
write_lbl_skip_writes_none(row_annot, description, skip) ==
  IF skip THEN NULL ELSE Lower(description)

\* The row label and the label that label_or_skip_buttons_clicked writes.
write_idx(row_annot) ==
  IF row_annot.name # -1 THEN row_annot.name ELSE Len(annotations)

write_lbl(row_annot, description, skip) ==
  LET new_button_label == Lower(description)
  IN  IF row_annot.name # -1
      THEN IF skip THEN row_annot.label ELSE new_button_label
      ELSE IF skip THEN NULL ELSE new_button_label

\* label_or_skip_buttons_clicked without the test of display_confirm at line
\* 299: confirm_button_clicked is called after every write.
label_or_skip_always_confirms(description, skip) ==
  /\ buttons_displayed
  /\ ~disabled
  /\ LET record_id == create_record_id
         row_annot == get_annotation_row_from_subset_iloc(annotation_index)
         idx == write_idx(row_annot)
         lbl == write_lbl(row_annot, description, skip)
         moved == move_clicked(1, TRUE)
     IN  /\ annotations' =
              loc_set(annotations, idx,
                      [id_column |-> record_id[annotation_index + 1],
                       text |-> iloc(subset_df, annotation_index).text,
                       label |-> lbl,
                       annotated_at |-> now])
         /\ annotation_index' = moved.annotation_index
         /\ screen' = moved.screen
         /\ disabled' = moved.disabled
         /\ confirm_visible' = moved.confirm_visible
  /\ last' = Click(IF skip THEN "Skip" ELSE "ChooseLabel", description)
  /\ UNCHANGED <<config, raised>>

\* label_or_skip_buttons_clicked(button, skip)
label_or_skip_buttons_clicked(description, skip) ==
  /\ buttons_displayed
  /\ ~disabled
  /\ LET record_id == create_record_id
         row_annot == get_annotation_row_from_subset_iloc(annotation_index)
         idx == write_idx(row_annot)
         lbl == write_lbl(row_annot, description, skip)
         moved == move_clicked(1, TRUE)
     IN  /\ annotations' =
              loc_set(annotations, idx,
                      [id_column |-> record_id[annotation_index + 1],
                       text |-> iloc(subset_df, annotation_index).text,
                       label |-> lbl,
                       annotated_at |-> now])
         /\ IF display_confirm
            THEN /\ disabled' = TRUE
                 /\ confirm_visible' = TRUE
                 /\ UNCHANGED <<annotation_index, screen>>
            ELSE /\ annotation_index' = moved.annotation_index
                 /\ screen' = moved.screen
                 /\ disabled' = moved.disabled
                 /\ confirm_visible' = moved.confirm_visible
  /\ last' = Click(IF skip THEN "Skip" ELSE "ChooseLabel", description)
  /\ UNCHANGED <<config, raised>>

label_buttons_clicked(description) ==
  label_or_skip_buttons_clicked(description, FALSE)

skip_button_clicked ==
  label_or_skip_buttons_clicked("Skip", TRUE)

\* The effect of move_clicked(delta) as the whole of a click handler.
Move(delta) ==
  LET moved == move_clicked(delta, disabled)
  IN  /\ annotation_index' = moved.annotation_index
      /\ screen' = moved.screen
      /\ disabled' = moved.disabled
      /\ confirm_visible' = moved.confirm_visible

confirm_button_clicked ==
  /\ buttons_displayed
  /\ confirm_visible
  /\ Move(1)
  /\ last' = Click("Confirm", NULL)
  /\ UNCHANGED <<config, annotations, raised>>

\* prev_button_clicked as a step back that also takes back the last write.
prev_button_drops_last_row ==
  /\ buttons_displayed
  /\ Move(-1)
  /\ annotations' = head_minus_one(annotations)
  /\ last' = Click("Prev", NULL)
  /\ UNCHANGED <<config, raised>>

prev_button_clicked ==
  /\ buttons_displayed
  /\ Move(-1)
  /\ last' = Click("Prev", NULL)
  /\ UNCHANGED <<config, annotations, raised>>

\* redo_button_clicked as an undo scoped to the position: the row of the
\* record on display is removed, wherever it is in the table.
redo_removes_current_record ==
  /\ buttons_displayed
  /\ confirm_visible
  /\ LET row_annot == get_annotation_row_from_subset_iloc(annotation_index)
     IN  annotations' = [k \in 1..(Len(annotations) - 1) |->
                           IF k < row_annot.name + 1 THEN annotations[k]
                           ELSE annotations[k + 1]]
  /\ disabled' = FALSE
  /\ confirm_visible' = FALSE
  /\ last' = Click("Undo", NULL)
  /\ UNCHANGED <<config, annotation_index, screen, raised>>

\* redo_button_clicked: self.annotations = self.annotations.head(-1)
redo_button_clicked ==
  /\ buttons_displayed
  /\ confirm_visible
  /\ annotations' = head_minus_one(annotations)
  /\ disabled' = FALSE
  /\ confirm_visible' = FALSE
  /\ last' = Click("Undo", NULL)
  /\ UNCHANGED <<config, annotation_index, screen, raised>>

\* A label or skip click after the last screen of move_clicked: the buttons
\* are not on display, no handler runs and nothing is raised.
click_without_buttons(op, description) ==
  /\ screen \in {"Complete", "Start"}
  /\ ~buttons_displayed
  /\ last' = Click(op, description)
  /\ UNCHANGED <<config, annotations, annotation_index, screen, raised,
                 disabled, confirm_visible>>

\* A click for a label that is not among self.labels: annotate() makes one
\* button per label, so there is no button and no handler runs.
click_unknown_label(description) ==
  /\ buttons_displayed
  /\ description \notin ButtonDescriptions
  /\ last' = Click("ChooseLabel", description)
  /\ UNCHANGED <<config, annotations, annotation_index, screen, raised,
                 disabled, confirm_visible>>

Next ==
  \/ annotate
  \/ \E description \in ButtonDescriptions : label_buttons_clicked(description)
  \/ skip_button_clicked
  \/ confirm_button_clicked
  \/ prev_button_clicked
  \/ redo_button_clicked
  \/ click_without_buttons("ChooseLabel", labels[1])
  \/ click_without_buttons("Skip", "Skip")
  \/ \E description \in UnknownDescriptions : click_unknown_label(description)

Spec == Init /\ [][Next]_vars

-----------------------------------------------------------------------------
\* The terms of the specification.

\* RecordIdAt(position)
RecordIdAt(position) ==
  IF id_column = NULL THEN iloc(subset_df, position).index
  ELSE iloc(subset_df, position).id_column

\* PriorEntryFor(position) in a table: the position (from 1) of the first row
\* whose record id is RecordIdAt(position), 0 when there is none.
PriorEntryFor(table, position) ==
  LET matching == {k \in 1..Len(table) :
                     table[k].id_column = RecordIdAt(position)}
  IN  IF matching = {} THEN 0
      ELSE CHOOSE k \in matching : \A j \in matching : k <= j

\* The handler of op ran at the last click.
HandlerRan(op) ==
  /\ last.op = op
  /\ last.screen = "annotate"
  /\ last.description \notin UnknownDescriptions

LabelsOf(table) == [k \in 1..Len(table) |-> table[k].label]

-----------------------------------------------------------------------------
\* The claims.

\* C1: Undo immediately after any write (a ChooseLabel or a Skip, appending or
\* overwriting) restores the annotations table to the rows it had before
\* that write.
C1_UndoRestoresTable ==
  (HandlerRan("Undo") /\ last.after \in WriteOps) =>
     annotations = last.before

\* C2: Prev at position 0 changes nothing, and at every position p with
\* 0 < p <= len(subset_df) - 1, the last one included, it sets the position
\* to p - 1 and the buttons stay on display.
C2_PrevIsAdvanceMinusOne ==
  HandlerRan("Prev") =>
     /\ screen = "annotate"
     /\ annotations = last.annotations
     /\ annotation_index = IF last.annotation_index = 0 THEN 0
                           ELSE last.annotation_index - 1

\* C3: in edit mode, for every source table and every prior annotations
\* table, an empty one included, every row of subset_df has a text that is
\* in the prior annotations table.
C3_EditSubsetIsAnnotated ==
  edit_annotations =>
     \A i \in 1..Len(subset_df) : subset_df[i].text \in text_list(prior)

\* C4: outside edit mode no row whose text is in the prior annotations table
\* is in subset_df.
C4_NonEditSubsetIsUnannotated ==
  ~edit_annotations =>
     \A i \in 1..Len(subset_df) : subset_df[i].text \notin text_list(prior)

C4_Witness ==
  /\ ~edit_annotations
  /\ Len(subset_df) > 0
  /\ \E i \in 1..Len(df) : df[i].text \in text_list(prior)

C6_ChooseLabelOverwrites ==
  (/\ HandlerRan("ChooseLabel")
   /\ PriorEntryFor(last.annotations, last.annotation_index) # 0) =>
     LET k == PriorEntryFor(last.annotations, last.annotation_index)
     IN  /\ Len(annotations) = Len(last.annotations)
         /\ annotations[k].id_column = RecordIdAt(last.annotation_index)
         /\ annotations[k].label = Lower(last.description)
         /\ \A j \in 1..Len(annotations) :
              j # k => annotations[j].label = last.annotations[j].label

C6_Witness ==
  /\ HandlerRan("ChooseLabel")
  /\ PriorEntryFor(last.annotations, last.annotation_index) = 1
  /\ Len(annotations) = 2
  /\ last.annotations[1].label = "negative"
  /\ annotations[1].label = "neutral"

C8_PositionInRange ==
  annotation_index \in 0..(Len(subset_df) - 1)

\* C8, amended: in every reachable state of an object whose subset_df is not
\* empty the position is in 0 .. len(subset_df) - 1.
C8_PositionInRangeOfNonEmptySubset ==
  Len(subset_df) > 0 => annotation_index \in 0..(Len(subset_df) - 1)

C8_Witness ==
  /\ HandlerRan("Confirm")
  /\ Len(subset_df) = 2
  /\ last.annotation_index = 1
  /\ annotation_index = 1
  /\ screen = "Complete"

\* C9: the buttons leave the display only by a forward move made at the last
\* position, which shows Complete; no other click at any position, a Prev in
\* particular, ends the session.
C9_OnlyForwardAtLastEnds ==
  (last.screen = "annotate" /\ screen # "annotate") =>
     /\ last.op \in {"ChooseLabel", "Skip", "Confirm"}
     /\ last.annotation_index = Len(subset_df) - 1
     /\ screen = "Complete"

AdvancedFromLast(delta) ==
  IF delta = -1 /\ last.annotation_index = 0
  THEN annotation_index = 0 /\ screen = "annotate"
  ELSE IF /\ last.annotation_index + delta >= 0
          /\ last.annotation_index + delta <= Len(subset_df) - 1
  THEN annotation_index = last.annotation_index + delta /\ screen = "annotate"
  ELSE annotation_index = last.annotation_index /\ screen = "Complete"

\* C11: with confirmation mode off a label or skip click writes the entry
\* and then performs Advance(+1); with confirmation mode on it writes the
\* entry and leaves the position unchanged, and the position moves forward
\* only at a Confirm.
C11_AdvanceAfterWrite ==
  /\ (HandlerRan("ChooseLabel") \/ HandlerRan("Skip")) =>
       /\ PriorEntryFor(annotations, last.annotation_index) # 0
       /\ IF display_confirm
          THEN annotation_index = last.annotation_index /\ screen = "annotate"
          ELSE AdvancedFromLast(1)
  /\ (display_confirm /\ annotation_index > last.annotation_index) =>
       HandlerRan("Confirm")

C11_Witness ==
  /\ display_confirm
  /\ HandlerRan("Confirm")
  /\ last.annotation_index = 0
  /\ annotation_index = 1
  /\ PriorEntryFor(annotations, 0) # 0

\* The row (from 1) that a label or skip click made on a table writes for
\* the record at a position: its prior entry, or a new last row.
WrittenRow(table, position) ==
  IF PriorEntryFor(table, position) # 0 THEN PriorEntryFor(table, position)
  ELSE Len(table) + 1

\* C12: in both id configurations (record ids from the row index of df when
\* no id column is configured, from the id column otherwise) the lookup of
\* the prior entry succeeds at every position and gives the entry whose
\* record id is RecordIdAt(position), none when there is none, and that
\* record id is the one the next label or skip click writes.
C12_PriorEntryForInBothConfigurations ==
  /\ (last.op = "annotate" /\ Len(subset_df) > 0) =>
       /\ raised = NULL
       /\ \A p \in 0..(Len(subset_df) - 1) :
            get_annotation_row_from_subset_iloc(p).name =
              PriorEntryFor(annotations, p) - 1
  /\ (HandlerRan("ChooseLabel") \/ HandlerRan("Skip")) =>
       annotations[WrittenRow(last.annotations,
                              last.annotation_index)].id_column =
         RecordIdAt(last.annotation_index)

\* A label click was made, with the buttons on display, for a label that is
\* not configured.
UnknownLabelClicked ==
  /\ last.op = "ChooseLabel"
  /\ last.screen = "annotate"
  /\ last.description \in UnknownDescriptions

ConfiguredLabels == {Lower(labels[i]) : i \in 1..Len(labels)}

-----------------------------------------------------------------------------
\* The rows Construct keeps after the edit / non-edit filter, in source
\* order: the eligible rows.
EligibleRows == row_selection_to_annotate(df, prior, edit_annotations)

\* C14: WorkingSubset never has more than requestedCount rows, and has
\* exactly requestedCount rows whenever at least that many rows are eligible.
C14_SubsetLength ==
  /\ Len(subset_df) <= num_records
  /\ Len(EligibleRows) >= num_records => Len(subset_df) = num_records

\* More rows are eligible than requested, and the subset was cut to the
\* requested count.
C14_Witness ==
  /\ num_records > 0
  /\ Len(EligibleRows) > num_records
  /\ Len(subset_df) = num_records

-----------------------------------------------------------------------------
-----------------------------------------------------------------------------
\* A table holds at most one entry per record id.
OneEntryPerRecord(table) ==
  \A j, k \in 1..Len(table) :
     table[j].id_column = table[k].id_column => j = k

\* C16: when the prior annotations table holds at most one entry per record
\* id, so does the annotations table after every sequence of label, skip,
\* confirm, prev and redo clicks, a second labelling of a position reached
\* again with prev included.
C16_OneEntryPerRecord ==
  OneEntryPerRecord(prior) => OneEntryPerRecord(annotations)

\* Position 0 was labelled in this session, left, reached again with prev
\* and labelled a second time: its entry was overwritten.
C16_Witness ==
  /\ HandlerRan("ChooseLabel")
  /\ OneEntryPerRecord(prior)
  /\ PriorEntryFor(prior, 0) = 0
  /\ last.annotation_index = 0
  /\ PriorEntryFor(last.annotations, 0) # 0
  /\ Len(annotations) = Len(last.annotations)
  /\ Len(annotations) >= 2


-----------------------------------------------------------------------------
\* C17: subset_df is fixed at construction, no click changes its rows or
\* their order, and a confirm or prev click leaves the annotations table as
\* it was.
C17_SubsetFixedAndMovesKeepTable ==
  /\ [][subset_df' = subset_df]_vars
  /\ []((HandlerRan("Confirm") \/ HandlerRan("Prev")) =>
           annotations = last.annotations)

\* A prev click moved back from position 1 with an entry in the table.
C17_Witness ==
  /\ HandlerRan("Prev")
  /\ last.annotation_index = 1
  /\ annotation_index = 0
  /\ Len(annotations) >= 1


-----------------------------------------------------------------------------
\* C19: with confirmation mode off and a non-empty subset_df, as long as
\* label and skip clicks are the only clicks handled, the last screen
\* ('Annotations Complete') is shown after exactly len(subset_df) of them,
\* and the annotations table then has an entry for the record id of every
\* position of subset_df.
C19_CompleteAfterOneWritePerRecord ==
  (~display_confirm /\ Len(subset_df) > 0 /\ raised = NULL
     /\ last.writes >= 0) =>
     /\ last.writes <= Len(subset_df)
     /\ last.writes < Len(subset_df) =>
          screen = "annotate" /\ annotation_index = last.writes
     /\ last.writes = Len(subset_df) =>
          /\ screen = "Complete"
          /\ \A p \in 0..(Len(subset_df) - 1) :
               PriorEntryFor(annotations, p) # 0

\* Three label or skip clicks, a skip among them, ended a session over three
\* records.
C19_Witness ==
  /\ ~display_confirm
  /\ Len(subset_df) = 3
  /\ last.writes = 3
  /\ screen = "Complete"
  /\ \E k \in 1..Len(annotations) : annotations[k].label = NULL


-----------------------------------------------------------------------------
\* A label or skip click is accepted: the buttons are on display and enabled.
LabelOrSkipAccepted == buttons_displayed /\ ~disabled

\* Undo and Confirm are available: their buttons are on display and visible.
UndoAndConfirmAvailable == buttons_displayed /\ confirm_visible

\* C20: in confirmation mode, after a label or skip click at the current
\* position no further label or skip click is accepted at that position
\* until a redo click or a change of position, and the redo and confirm
\* buttons are available only from such a write to the next redo click or
\* change of position.
C20_ConfirmationGate ==
  [][display_confirm =>
       LET write == HandlerRan("ChooseLabel")' \/ HandlerRan("Skip")'
           undo == HandlerRan("Undo")'
           moved == annotation_index' # annotation_index
       IN  /\ write => ~LabelOrSkipAccepted' /\ UndoAndConfirmAvailable'
           /\ (screen = "annotate" /\ ~LabelOrSkipAccepted
                 /\ LabelOrSkipAccepted') => undo \/ moved
           /\ (~UndoAndConfirmAvailable /\ UndoAndConfirmAvailable') => write
           /\ (undo \/ moved) => ~UndoAndConfirmAvailable'
           /\ (screen = "annotate" /\ screen' = "annotate") =>
                (LabelOrSkipAccepted' <=> ~UndoAndConfirmAvailable')]_vars

\* A prev click at position 0 after a label click in confirmation mode: the
\* position did not change, the label buttons stay disabled and redo and
\* confirm stay available.
C20_Witness ==
  /\ display_confirm
  /\ HandlerRan("Prev")
  /\ last.annotation_index = 0
  /\ ~LabelOrSkipAccepted
  /\ UndoAndConfirmAvailable

=============================================================================
